---- MODULE Spec2Model ----
(***************************************************************************)
(* Model of mujoco_playground/_src/locomotion/pupper/randomize.py:         *)
(* domain_randomize(model, rng), the vmapped rand_dynamics closure, the    *)
(* in_axes descriptor and the final tree_replace.                          *)
(*                                                                         *)
(* Numbers are fixed-point with two decimals (1.0 is written 100), so the  *)
(* sampling ranges of the source become integer ranges.  Arrays of the     *)
(* source are 0-based; they are sequences here and element i of the source *)
(* is element i+1 of the sequence.                                         *)
(***************************************************************************)
EXTENDS Integers, Sequences, FiniteSets, TLC

\* ---------------------------------------------------------------- bounds
MaxN == 2
MaxSeed == 2
MaxBody == 3
NLevels == 4

\* ------------------------------------------------------ program constants
FLOOR_GEOM_ID == 0
TORSO_BODY_ID == 1

FLOOR_FRICTION_MIN == 40
FLOOR_FRICTION_MAX == 100

DOF_FRICTIONLOSS_SCALE_MIN == 90
DOF_FRICTIONLOSS_SCALE_MAX == 110

ARMAUTRE_SCALE_MIN == 100
ARMAUTRE_SCALE_MAX == 105

COM_POS_JITTER_MIN == 0 - 5
COM_POS_JITTER_MAX == 5

LINK_MASS_SCALE_MIN == 90
LINK_MASS_SCALE_MAX == 110

ADDED_MASS_MIN == 0 - 50
ADDED_MASS_MAX == 50

INIT_QPOS_JITTER_MIN == 0 - 5
INIT_QPOS_JITTER_MAX == 5

\* first leg entry of the dof arrays ([6:]) and of qpos0 ([7:]), and the
\* number of leg entries (shape=(12,))
DOF_LEG_START == 6
QPOS_LEG_START == 7
NUM_LEG == 12

\* the six fields domain_randomize replaces
RandomizedFields ==
  {"geom_friction", "body_ipos", "body_mass", "qpos0",
   "dof_frictionloss", "dof_armature"}

VARIABLES model, seeds, pc, envs, in_axes, ret, err, prev

vars == <<model, seeds, pc, envs, in_axes, ret, err, prev>>

\* ------------------------------------------------------- array primitives
\* an array given by its elements, as an explicit sequence
Arr(f) == SubSeq(f, 1, Len(f))

Min2(a, b) == IF a < b THEN a ELSE b
Max2(a, b) == IF a > b THEN a ELSE b

\* arr[i] of a jax array: an out-of-range index is clamped into range
Get(arr, i) == arr[Min2(Max2(i, 0), Len(arr) - 1) + 1]

\* arr.at[i].set(v): an out-of-range update is dropped
AtSet(arr, i, v) ==
  IF i >= 0 /\ i < Len(arr) THEN [arr EXCEPT ![i + 1] = v] ELSE arr

\* arr.at[i, j].set(v)
AtSet2(arr, i, j, v) ==
  IF i >= 0 /\ i < Len(arr) /\ j >= 0 /\ j < Len(arr[i + 1])
  THEN [arr EXCEPT ![i + 1][j + 1] = v]
  ELSE arr

\* arr[k:]
Tail_from(arr, k) ==
  IF k >= Len(arr) THEN << >> ELSE SubSeq(arr, k + 1, Len(arr))

\* shape rule of an elementwise binary operation on 1-d arrays
BroadcastShapeOK(a, b) == a = b \/ a = 1 \/ b = 1

\* shape rule of target.at[...].set(val): val must broadcast to the target
SetShapeOK(target, val) == val = target \/ val = 1

\* elementwise a op b of two 1-d arrays, with broadcasting of length 1
BLen(a, b) == IF Len(a) = 1 THEN Len(b) ELSE Len(a)
BAt(a, j) == IF Len(a) = 1 THEN a[1] ELSE a[j]

\* fixed-point product of two non-negative numbers, rounded down
Mul(a, b) == (a * b) \div 100

VecMul(a, b) == Arr([j \in 1..BLen(a, b) |-> Mul(BAt(a, j), BAt(b, j))])
VecAdd(a, b) == Arr([j \in 1..BLen(a, b) |-> BAt(a, j) + BAt(b, j)])

\* variant: the update starts from zeros instead of from arr
AtTailSet_from_zeros(arr, k, val) ==
  Arr([j \in 1..Len(arr) |-> IF j > k THEN BAt(val, j - k) ELSE 0])

\* arr.at[k:].set(val), shapes already checked
AtTailSet(arr, k, val) ==
  Arr([j \in 1..Len(arr) |-> IF j > k THEN BAt(val, j - k) ELSE arr[j]])

\* ---------------------------------------------------------- random keys
\* variant: the key also depends on what the call before left behind
RootKey_stateful(s) ==
  [seed |-> s + Len(prev.seeds), path |-> << >>]

\* A key is the root seed and the path of split outputs that leads to it.
RootKey(s) == [seed |-> s, path |-> << >>]

\* variant: the carried key is not advanced
split_stuck(k) == << k, [k EXCEPT !.path = Append(@, 1)] >>

\* jax.random.split(rng): two fresh keys; the first is carried on as rng,
\* the second is consumed by the draw
split(k) ==
  << [k EXCEPT !.path = Append(@, 0)], [k EXCEPT !.path = Append(@, 1)] >>

RECURSIVE SumSeq(_)
SumSeq(s) == IF s = << >> THEN 0 ELSE s[1] + SumSeq(Tail(s))

\* the bits the generator yields for element j of a draw under key k: a
\* fixed function of the key and the element index
random_bits(k, j) ==
  (2 + 7 * k.seed + 3 * Len(k.path) + 11 * SumSeq(k.path)
     + j * (2 * k.seed + 3) + ((j * (j + 1)) \div 2) * (k.seed + 1)) % NLevels

\* variant: the sample is scaled by maxval instead of maxval - minval
uniform_unscaled(k, n, minval, maxval) ==
  Arr([j \in 1..n |-> minval + ((maxval * random_bits(k, j - 1)) \div NLevels)])

\* jax.random.uniform(key, shape=(n,), minval, maxval): values in
\* [minval, maxval)
uniform(k, n, minval, maxval) ==
  Arr([j \in 1..n |->
        minval + (((maxval - minval) * random_bits(k, j - 1)) \div NLevels)])

\* jax.random.uniform(key, minval, maxval) with shape ()
uniform0(k, minval, maxval) ==
  minval + (((maxval - minval) * random_bits(k, 0)) \div NLevels)

\* ------------------------------------------------------- baseline models
MkModel(nv, nq, nb, ng) ==
  [geom_friction    |-> [g \in 1..ng |-> <<100 - 10 * g, 5, 1>>],
   dof_frictionloss |-> [d \in 1..nv |-> 20 + 10 * d],
   dof_armature     |-> [d \in 1..nv |-> 100 + 7 * d],
   body_ipos        |-> [b \in 1..nb |-> <<b, 0 - b, 10 * b>>],
   body_mass        |-> [b \in 1..nb |-> IF b = 1 THEN 0 ELSE 150 * b],
   qpos0            |-> [q \in 1..nq |-> IF q = 4 THEN 100 ELSE 3 * q - 30],
   gravity          |-> <<0, 0, 0 - 981>>]

DropField(m, f) == [g \in DOMAIN m \ {f} |-> m[g]]

NV == DOF_LEG_START + NUM_LEG
NQ == QPOS_LEG_START + NUM_LEG

\* well-formed models: world and torso plus further links, the floor plus one
\* collision geometry per further link
ValidModels ==
  {MkModel(NV, NQ, nb, nb - 1) : nb \in 2..MaxBody}

\* models that break the fixed index layout in one respect
BadDimModels ==
  {MkModel(nv, NQ, 2, 1) : nv \in {DOF_LEG_START, DOF_LEG_START + 1, NV - 1, NV + 1}}
  \cup {MkModel(NV, nq, 2, 1) : nq \in {QPOS_LEG_START, QPOS_LEG_START + 1, NQ - 1, NQ + 1}}
  \cup {MkModel(NV, NQ, 1, 1), MkModel(NV, NQ, 2, 0)}

MissingFieldModels ==
  {DropField(MkModel(NV, NQ, 2, 1), f) : f \in RandomizedFields}

Models == ValidModels \cup BadDimModels \cup MissingFieldModels

Has(f) == f \in DOMAIN model
nbody == Len(model.body_mass)

RECURSIVE SeqsUpTo(_, _)
SeqsUpTo(S, n) ==
  IF n = 0 THEN {<< >>}
  ELSE LET shorter == SeqsUpTo(S, n - 1)
       IN shorter \cup {Append(s, x) : s \in {t \in shorter : Len(t) = n - 1}, x \in S}

SeedBatches == SeqsUpTo(0..(MaxSeed - 1), MaxN)

\* jax.vmap: apply F to every element, stacking the results in order
vmap(F(_), xs) == Arr([i \in 1..Len(xs) |-> F(xs[i])])

\* ------------------------------------------ rand_dynamics, one environment
\* The locals of one traced environment: the carried rng, the keys consumed
\* so far with the step that consumed each, the samples drawn and the
\* perturbed arrays computed so far.
NoValue == << >>

NewEnv(r) ==
  [rng   |-> r,
   keys  |-> << >>,
   steps |-> << >>,
   draw  |-> [floor_friction |-> NoValue, frictionloss |-> NoValue,
              armature |-> NoValue, com_pos |-> NoValue,
              mass_scale |-> NoValue, added_mass |-> NoValue,
              qpos_jitter |-> NoValue],
   val   |-> [geom_friction |-> NoValue, dof_frictionloss |-> NoValue,
              dof_armature |-> NoValue, body_ipos |-> NoValue,
              body_mass |-> NoValue, qpos0 |-> NoValue]]

\* bookkeeping shared by the seven steps: carry sp[1] on, consume sp[2] for
\* draw d of step `name`, and bind the perturbed array to local `field`
Bind(e, sp, name, d, field, v) ==
  [rng   |-> sp[1],
   keys  |-> Append(e.keys, sp[2]),
   steps |-> Append(e.steps, name),
   draw  |-> [e.draw EXCEPT ![name] = d],
   val   |-> [e.val EXCEPT ![field] = v]]

\* Floor friction: =U(0.4, 1.0).
floor_friction(e) ==
  LET sp == split(e.rng)
      u  == uniform0(sp[2], FLOOR_FRICTION_MIN, FLOOR_FRICTION_MAX)
  IN Bind(e, sp, "floor_friction", u, "geom_friction",
          AtSet2(model.geom_friction, FLOOR_GEOM_ID, 0, u))

\* Scale static friction: *U(0.9, 1.1).
frictionloss(e) ==
  LET sp == split(e.rng)
      u  == uniform(sp[2], NUM_LEG, DOF_FRICTIONLOSS_SCALE_MIN, DOF_FRICTIONLOSS_SCALE_MAX)
      fl == VecMul(Tail_from(model.dof_frictionloss, DOF_LEG_START), u)
  IN Bind(e, sp, "frictionloss", u, "dof_frictionloss",
          AtTailSet(model.dof_frictionloss, DOF_LEG_START, fl))

\* Scale armature: *U(1.0, 1.05).
armature(e) ==
  LET sp == split(e.rng)
      u  == uniform(sp[2], NUM_LEG, ARMAUTRE_SCALE_MIN, ARMAUTRE_SCALE_MAX)
      ar == VecMul(Tail_from(model.dof_armature, DOF_LEG_START), u)
  IN Bind(e, sp, "armature", u, "dof_armature",
          AtTailSet(model.dof_armature, DOF_LEG_START, ar))

\* Jitter center of mass position: +U(-0.05, 0.05).
com_pos(e) ==
  LET sp   == split(e.rng)
      dpos == uniform(sp[2], 3, COM_POS_JITTER_MIN, COM_POS_JITTER_MAX)
  IN Bind(e, sp, "com_pos", dpos, "body_ipos",
          AtSet(model.body_ipos, TORSO_BODY_ID,
                VecAdd(Get(model.body_ipos, TORSO_BODY_ID), dpos)))

\* Scale all link masses: *U(0.9, 1.1).
mass_scale(e) ==
  LET sp    == split(e.rng)
      dmass == uniform(sp[2], nbody, LINK_MASS_SCALE_MIN, LINK_MASS_SCALE_MAX)
  IN Bind(e, sp, "mass_scale", dmass, "body_mass", VecMul(model.body_mass, dmass))

\* variant: the delta is added to the baseline torso mass
added_mass_unscaled(e) ==
  LET sp    == split(e.rng)
      dmass == uniform0(sp[2], ADDED_MASS_MIN, ADDED_MASS_MAX)
      bm    == e.val.body_mass
  IN Bind(e, sp, "added_mass", dmass, "body_mass",
          AtSet(bm, TORSO_BODY_ID, Get(model.body_mass, TORSO_BODY_ID) + dmass))

\* Add mass to torso: +U(-0.5, 0.5).  Works on the local body_mass of the
\* previous step.
added_mass(e) ==
  LET sp    == split(e.rng)
      dmass == uniform0(sp[2], ADDED_MASS_MIN, ADDED_MASS_MAX)
      bm    == e.val.body_mass
  IN Bind(e, sp, "added_mass", dmass, "body_mass",
          AtSet(bm, TORSO_BODY_ID, Get(bm, TORSO_BODY_ID) + dmass))

\* Jitter qpos0: +U(-0.05, 0.05).
qpos_jitter(e) ==
  LET sp == split(e.rng)
      u  == uniform(sp[2], NUM_LEG, INIT_QPOS_JITTER_MIN, INIT_QPOS_JITTER_MAX)
      q  == VecAdd(Tail_from(model.qpos0, QPOS_LEG_START), u)
  IN Bind(e, sp, "qpos_jitter", u, "qpos0",
          AtTailSet(model.qpos0, QPOS_LEG_START, q))

\* the whole per-environment procedure on root key r
rand_dynamics(r) ==
  qpos_jitter(added_mass(mass_scale(com_pos(armature(frictionloss(
    floor_friction(NewEnv(r))))))))

\* -------------------------------------------------- errors while tracing
\* a leg update  arr.at[k:].set(arr[k:] op sample of shape (12,))
LegUpdateError(f, k) ==
  IF ~Has(f) THEN "AttributeError"
  ELSE LET tl == Max2(Len(model[f]) - k, 0)
       IN IF ~BroadcastShapeOK(tl, NUM_LEG) THEN "TypeError"
          ELSE IF ~SetShapeOK(tl, Max2(tl, NUM_LEG)) THEN "ValueError"
          ELSE "none"

FieldError(f) == IF Has(f) THEN "none" ELSE "AttributeError"

StepError(k) ==
  CASE k = 1 -> FieldError("geom_friction")
    [] k = 2 -> LegUpdateError("dof_frictionloss", DOF_LEG_START)
    [] k = 3 -> LegUpdateError("dof_armature", DOF_LEG_START)
    [] k = 4 -> FieldError("body_ipos")
    [] k = 5 -> FieldError("body_mass")
    [] k = 6 -> "none"
    [] k = 7 -> LegUpdateError("qpos0", QPOS_LEG_START)

\* the statement blocks of rand_dynamics in program order, and what follows
StepOrder ==
  <<"floor_friction", "frictionloss", "armature", "com_pos", "mass_scale",
    "added_mass", "qpos_jitter">>

PcAfter(k) == IF k < Len(StepOrder) THEN StepOrder[k + 1] ELSE "in_axes"

\* ------------------------------------------------------------- pytrees
\* jax.tree_util.tree_map(lambda x: None, model)
tree_map_None(t) == [f \in DOMAIN t |-> "None"]

\* t.tree_replace(upd)
tree_replace(t, upd) ==
  [f \in DOMAIN t |-> IF f \in DOMAIN upd THEN upd[f] ELSE t[f]]

\* variant: qpos0 is left out of the dict
AxesUpdate_no_qpos0 ==
  [geom_friction |-> "axis0", body_ipos |-> "axis0", body_mass |-> "axis0",
   dof_frictionloss |-> "axis0", dof_armature |-> "axis0"]

\* the dict passed to in_axes.tree_replace
AxesUpdate ==
  [geom_friction |-> "axis0", body_ipos |-> "axis0", body_mass |-> "axis0",
   qpos0 |-> "axis0", dof_frictionloss |-> "axis0", dof_armature |-> "axis0"]

\* the stacked results of the vmapped closure, in the order they are
\* unpacked, as the dict passed to model.tree_replace
Stacked(es) ==
  [geom_friction    |-> Arr([i \in 1..Len(es) |-> es[i].val.geom_friction]),
   body_ipos        |-> Arr([i \in 1..Len(es) |-> es[i].val.body_ipos]),
   body_mass        |-> Arr([i \in 1..Len(es) |-> es[i].val.body_mass]),
   qpos0            |-> Arr([i \in 1..Len(es) |-> es[i].val.qpos0]),
   dof_frictionloss |-> Arr([i \in 1..Len(es) |-> es[i].val.dof_frictionloss]),
   dof_armature     |-> Arr([i \in 1..Len(es) |-> es[i].val.dof_armature])]

\* variant: the environments are traced in reverse seed order
Batch_reversed(s) ==
  Arr([i \in 1..Len(s) |-> NewEnv(RootKey(s[Len(s) + 1 - i]))])

\* variant: every environment is traced with the first key
Batch_shared(s) ==
  Arr([i \in 1..Len(s) |-> NewEnv(RootKey(s[1]))])

\* the batch of keys handed to the vmapped closure: one traced environment
\* per key, in order
Batch(s) == vmap(NewEnv, vmap(RootKey, s))

\* ---------------------------------------------------------------- actions
\* what the caller got from the call before this one
NoCall == [seeds |-> << >>, status |-> "none", ret |-> NoValue, in_axes |-> NoValue]

Init ==
  /\ model \in Models
  /\ seeds = << >>
  /\ pc = "idle"
  /\ envs = << >>
  /\ in_axes = NoValue
  /\ ret = NoValue
  /\ err = "none"
  /\ prev = NoCall

\* the caller invokes domain_randomize(model, rng) with a batch of keys
Call(s) ==
  /\ pc = "idle"
  /\ seeds' = s
  /\ envs' = Batch(s)
  /\ in_axes' = NoValue
  /\ ret' = NoValue
  /\ err' = "none"
  /\ pc' = StepOrder[1]
  /\ UNCHANGED <<model, prev>>

\* one statement block of rand_dynamics, traced for the whole batch: it
\* either raises or maps the block over the environments
Trace(k, step(_)) ==
  IF StepError(k) # "none"
  THEN /\ pc' = "error"
       /\ err' = StepError(k)
       /\ UNCHANGED envs
  ELSE /\ envs' = vmap(step, envs)
       /\ pc' = PcAfter(k)
       /\ UNCHANGED err

FloorFriction ==
  /\ pc = "floor_friction"
  /\ Trace(1, floor_friction)
  /\ UNCHANGED <<model, seeds, in_axes, ret, prev>>

Frictionloss ==
  /\ pc = "frictionloss"
  /\ Trace(2, frictionloss)
  /\ UNCHANGED <<model, seeds, in_axes, ret, prev>>

Armature ==
  /\ pc = "armature"
  /\ Trace(3, armature)
  /\ UNCHANGED <<model, seeds, in_axes, ret, prev>>

ComPos ==
  /\ pc = "com_pos"
  /\ Trace(4, com_pos)
  /\ UNCHANGED <<model, seeds, in_axes, ret, prev>>

MassScale ==
  /\ pc = "mass_scale"
  /\ Trace(5, mass_scale)
  /\ UNCHANGED <<model, seeds, in_axes, ret, prev>>

AddedMass ==
  /\ pc = "added_mass"
  /\ Trace(6, added_mass)
  /\ UNCHANGED <<model, seeds, in_axes, ret, prev>>

QposJitter ==
  /\ pc = "qpos_jitter"
  /\ Trace(7, qpos_jitter)
  /\ UNCHANGED <<model, seeds, in_axes, ret, prev>>

\* in_axes = tree_map(None, model).tree_replace({... : 0})
BuildInAxes ==
  /\ pc = "in_axes"
  /\ in_axes' = tree_replace(tree_map_None(model), AxesUpdate)
  /\ pc' = "replace"
  /\ UNCHANGED <<model, seeds, envs, ret, err, prev>>

\* model = model.tree_replace({...}): a new value bound to the local name
ReplaceModel ==
  /\ pc = "replace"
  /\ ret' = tree_replace(model, Stacked(envs))
  /\ pc' = "done"
  /\ UNCHANGED <<model, seeds, envs, in_axes, err, prev>>

\* the locals of the call are gone once it has ended
EndCall ==
  /\ pc' = "idle"
  /\ seeds' = << >>
  /\ envs' = << >>
  /\ in_axes' = NoValue
  /\ ret' = NoValue
  /\ err' = "none"
  /\ UNCHANGED model

\* return model, in_axes
Return ==
  /\ pc = "done"
  /\ prev' = [seeds |-> seeds, status |-> "ok", ret |-> ret, in_axes |-> in_axes]
  /\ EndCall

\* the exception raised while tracing reaches the caller
Raise ==
  /\ pc = "error"
  /\ prev' = [seeds |-> seeds, status |-> err, ret |-> ret, in_axes |-> in_axes]
  /\ EndCall

Next ==
  \/ \E s \in SeedBatches : Call(s)
  \/ FloorFriction
  \/ Frictionloss
  \/ Armature
  \/ ComPos
  \/ MassScale
  \/ AddedMass
  \/ QposJitter
  \/ BuildInAxes
  \/ ReplaceModel
  \/ Return
  \/ Raise

Spec == Init /\ [][Next]_vars

TypeOK ==
  /\ pc \in {"idle", "in_axes", "replace", "done", "error"}
            \cup {StepOrder[k] : k \in 1..Len(StepOrder)}
  /\ Len(envs) = Len(seeds)
  /\ prev.status \in {"none", "ok", "AttributeError", "TypeError", "ValueError"}

\* ================================================================ claims
N == Len(seeds)

\* the call in progress has ended and its outcome is about to reach the caller
Ended == pc \in {"done", "error"}
Outcome == IF pc = "done" THEN "ok" ELSE err

\* the fields of rows 1-7 of the randomization table
TableFields ==
  {"geom_friction", "dof_frictionloss", "dof_armature", "body_ipos",
   "body_mass", "qpos0"}

\* the model satisfies the fixed index layout
LayoutOK ==
  /\ TableFields \subseteq DOMAIN model
  /\ Len(model.dof_frictionloss) = 18
  /\ Len(model.dof_armature) = 18
  /\ Len(model.qpos0) = 19
  /\ Len(model.body_mass) >= 2
  /\ Len(model.body_ipos) >= 2
  /\ Len(model.geom_friction) >= 1

\* step `name` has been executed in environment e
Drawn(e, name) == \E k \in 1..Len(e.steps) : e.steps[k] = name

\* C1: pass-through.  In a returned model batch every field outside the
\* randomization table equals the baseline and carries no batch dimension,
\* and in every slice every untargeted entry of a randomized field equals
\* the baseline: geom_friction except [0, 0], dof entries 0..5, body_ipos
\* rows other than body 1, qpos0 entries 0..6.
PassThrough ==
  pc = "done" =>
    /\ DOMAIN ret = DOMAIN model
    /\ \A f \in DOMAIN model \ TableFields : ret[f] = model[f]
    /\ \A i \in 1..N :
         /\ \A g \in 1..Len(model.geom_friction) : \A c \in 1..3 :
              (g # 1 \/ c # 1) =>
                ret.geom_friction[i][g][c] = model.geom_friction[g][c]
         /\ \A d \in 1..6 :
              /\ ret.dof_frictionloss[i][d] = model.dof_frictionloss[d]
              /\ ret.dof_armature[i][d] = model.dof_armature[d]
         /\ \A b \in 1..Len(model.body_ipos) :
              b # 2 => ret.body_ipos[i][b] = model.body_ipos[b]
         /\ \A q \in 1..7 : ret.qpos0[i][q] = model.qpos0[q]

PassThroughWitness ==
  /\ pc = "done"
  /\ N = 2
  /\ Len(model.body_ipos) = 3
  /\ Len(model.geom_friction) = 2
  /\ ret.gravity = model.gravity
  /\ ret.body_ipos[1][3] = model.body_ipos[3]
  /\ \E i \in 1..N : ret.body_ipos[i][2] # model.body_ipos[2]
  /\ \E i \in 1..N : ret.geom_friction[i][1][1] # model.geom_friction[1][1]
  /\ \E i \in 1..N : ret.dof_frictionloss[i][7] # model.dof_frictionloss[7]
  /\ \E i \in 1..N : ret.dof_armature[i][7] # model.dof_armature[7]
  /\ \E i \in 1..N : ret.qpos0[i][8] # model.qpos0[8]

\* C2: axis descriptor.  The returned in_axes has exactly the fields of the
\* model, marks a field as batched along dimension 0 exactly when it is in
\* the randomization table and as not batched otherwise, and is the same
\* for every call whatever the number and the values of the seeds.
AxisDescriptor ==
  /\ pc \in {"replace", "done"} =>
       /\ DOMAIN in_axes = DOMAIN model
       /\ \A f \in DOMAIN model :
            /\ in_axes[f] \in {"axis0", "None"}
            /\ in_axes[f] = "axis0" <=> f \in TableFields
  /\ (pc \in {"replace", "done"} /\ prev.status = "ok") => prev.in_axes = in_axes

AxisDescriptorWitness ==
  /\ pc = "done"
  /\ prev.status = "ok"
  /\ Len(prev.seeds) = 1
  /\ N = 2
  /\ seeds[1] # seeds[2]
  /\ seeds[1] # prev.seeds[1]
  /\ in_axes.qpos0 = "axis0"
  /\ in_axes.gravity = "None"

\* C3: batch size and seed order.  Every randomized field of a returned
\* batch has exactly one slice per seed, and slice i is the result of the
\* per-environment procedure on seeds[i].
BatchSeedOrder ==
  pc = "done" =>
    \A f \in TableFields :
      /\ Len(ret[f]) = N
      /\ \A i \in 1..N : ret[f][i] = rand_dynamics(RootKey(seeds[i])).val[f]

BatchSeedOrderWitness ==
  /\ pc = "done"
  /\ N = 2
  /\ seeds[1] # seeds[2]
  /\ ret.geom_friction[1] # ret.geom_friction[2]
  /\ ret.body_mass[1] # ret.body_mass[2]

InRange(x, lo, hi) == lo <= x /\ x <= hi
AllInRange(v, lo, hi) == \A j \in 1..Len(v) : InRange(v[j], lo, hi)

\* C4: range containment.  Every sample drawn in every environment lies in
\* the closed interval of its step, and so does the ground friction
\* coefficient written to the output.
RangeContainment ==
  \A i \in 1..Len(envs) :
    LET e == envs[i]
    IN /\ Drawn(e, "floor_friction") =>
            /\ InRange(e.draw.floor_friction, 40, 100)
            /\ Len(model.geom_friction) >= 1 =>
                 InRange(e.val.geom_friction[1][1], 40, 100)
       /\ Drawn(e, "frictionloss") =>
            Len(e.draw.frictionloss) = 12 /\ AllInRange(e.draw.frictionloss, 90, 110)
       /\ Drawn(e, "armature") =>
            Len(e.draw.armature) = 12 /\ AllInRange(e.draw.armature, 100, 105)
       /\ Drawn(e, "com_pos") =>
            Len(e.draw.com_pos) = 3 /\ AllInRange(e.draw.com_pos, 0 - 5, 5)
       /\ Drawn(e, "mass_scale") =>
            /\ Len(e.draw.mass_scale) = Len(model.body_mass)
            /\ AllInRange(e.draw.mass_scale, 90, 110)
       /\ Drawn(e, "added_mass") => InRange(e.draw.added_mass, 0 - 50, 50)
       /\ Drawn(e, "qpos_jitter") =>
            Len(e.draw.qpos_jitter) = 12 /\ AllInRange(e.draw.qpos_jitter, 0 - 5, 5)

RangeContainmentWitness ==
  /\ pc = "done"
  /\ N = 2
  /\ \E i \in 1..N : envs[i].draw.floor_friction = 40
  /\ \E i \in 1..N : envs[i].draw.floor_friction > 40
  /\ \E i \in 1..N : \E j \in 1..12 : envs[i].draw.frictionloss[j] > 100
  /\ \E i \in 1..N : \E j \in 1..12 : envs[i].draw.qpos_jitter[j] = 0 - 5
  /\ \E i \in 1..N : envs[i].draw.added_mass # 0

DiffersOnlyAt(s, t, i) ==
  /\ Len(s) = Len(t)
  /\ i \in 1..Len(s)
  /\ s[i] # t[i]
  /\ \A j \in 1..Len(s) : j # i => s[j] = t[j]

\* C5: independence across the batch.  Two completed calls whose seed
\* batches have the same length and differ only at index i agree on every
\* slice j # i of every randomized field and on every other field.
BatchIndependence ==
  (pc = "done" /\ prev.status = "ok") =>
    \A i \in 1..N :
      DiffersOnlyAt(prev.seeds, seeds, i) =>
        /\ \A f \in TableFields :
             \A j \in 1..N : j # i => prev.ret[f][j] = ret[f][j]
        /\ \A f \in DOMAIN model \ TableFields : prev.ret[f] = ret[f]

BatchIndependenceWitness ==
  /\ pc = "done"
  /\ prev.status = "ok"
  /\ N = 2
  /\ DiffersOnlyAt(prev.seeds, seeds, 1)
  /\ prev.ret.geom_friction[1] # ret.geom_friction[1]
  /\ prev.ret.qpos0[1] # ret.qpos0[1]
  /\ prev.ret.geom_friction[2] = ret.geom_friction[2]

\* C6: empty batch rejected.  A call with no seeds (here: on a model that
\* satisfies the layout) ends with an error and yields neither a model batch
\* nor an axis specification.
EmptyBatchRejected ==
  (Ended /\ LayoutOK /\ N = 0) =>
    /\ Outcome # "ok"
    /\ ret = NoValue
    /\ in_axes = NoValue

\* C7: schema mismatch rejected.  A call (here: with at least one seed) on a
\* model that lacks a required field or breaks the fixed index layout ends
\* with an error and yields no output.
SchemaMismatchRejected ==
  (Ended /\ ~LayoutOK /\ N >= 1) =>
    /\ Outcome # "ok"
    /\ ret = NoValue
    /\ in_axes = NoValue

\* C8: determinism.  A call with the same seed batch as the call before it,
\* on the same baseline model, ends the same way with the same model batch
\* and the same axis specification, and no step changes the baseline model.
Determinism ==
  /\ []((Ended /\ prev.status # "none" /\ prev.seeds = seeds) =>
          /\ prev.status = Outcome
          /\ prev.ret = ret
          /\ prev.in_axes = in_axes)
  /\ [][model' = model]_vars

DeterminismWitness ==
  /\ pc = "done"
  /\ prev.status = "ok"
  /\ prev.seeds = seeds
  /\ N = 2
  /\ seeds[1] # seeds[2]
  /\ prev.ret.body_mass = ret.body_mass
  /\ ret # model

\* C9: mass perturbation order.  In every slice of a returned batch the
\* torso mass is the baseline torso mass times its step-5 multiplier plus
\* the step-6 draw, and every other body mass is the baseline mass times
\* its multiplier.
MassOrder ==
  pc = "done" =>
    \A i \in 1..N :
      LET s == envs[i].draw.mass_scale
          d == envs[i].draw.added_mass
      IN \A b \in 0..(Len(model.body_mass) - 1) :
           ret.body_mass[i][b + 1] =
             IF b = 1 THEN Mul(model.body_mass[b + 1], s[b + 1]) + d
                      ELSE Mul(model.body_mass[b + 1], s[b + 1])

MassOrderWitness ==
  /\ pc = "done"
  /\ N >= 1
  /\ Len(model.body_mass) = 3
  /\ envs[1].draw.added_mass # 0
  /\ envs[1].draw.mass_scale[2] # 100
  /\ ret.body_mass[1][2] # model.body_mass[2] + envs[1].draw.added_mass
  /\ ret.body_mass[1][2] # Mul(model.body_mass[2] + envs[1].draw.added_mass,
                                envs[1].draw.mass_scale[2])

KeyOfStep(seed, k) ==
  [seed |-> seed, path |-> [j \in 1..k |-> IF j = k THEN 1 ELSE 0]]

CarriedAfter(seed, k) == [seed |-> seed, path |-> [j \in 1..k |-> 0]]

FixedOrder ==
  <<"floor_friction", "frictionloss", "armature", "com_pos", "mass_scale",
    "added_mass", "qpos_jitter">>

Discipline(e, seed) ==
  /\ Len(e.steps) <= 7
  /\ Len(e.keys) = Len(e.steps)
  /\ e.steps = SubSeq(FixedOrder, 1, Len(e.steps))
  /\ e.rng = CarriedAfter(seed, Len(e.steps))
  /\ \A k \in 1..Len(e.keys) :
       /\ e.keys[k] = KeyOfStep(seed, k)
       /\ e.keys[k] # e.rng
       /\ \A l \in 1..Len(e.keys) : l # k => e.keys[l] # e.keys[k]

\* C10: sub-stream discipline.  In every environment the steps executed so
\* far are a prefix of the fixed order; the key of step k is the second
\* output of the k-th split of the chain of first outputs that starts at
\* the environment's seed; the keys are pairwise distinct (one draw each)
\* and distinct from the carried state; and the key of a step is decided by
\* the seed and the step alone.
SubStreamDiscipline ==
  /\ \A i \in 1..Len(envs) : Discipline(envs[i], seeds[i])
  /\ pc \in {"in_axes", "replace", "done"} =>
       \A i \in 1..Len(envs) : Len(envs[i].steps) = 7
  /\ \A i \in 1..Len(envs) : \A j \in 1..Len(envs) :
       /\ seeds[i] = seeds[j] => envs[i].keys = envs[j].keys
       /\ seeds[i] # seeds[j] =>
            \A k \in 1..Len(envs[i].keys) : envs[i].keys[k] # envs[j].keys[k]

SubStreamDisciplineWitness ==
  /\ pc = "done"
  /\ N = 2
  /\ seeds[1] # seeds[2]
  /\ Len(envs[1].keys) = 7
  /\ envs[1].keys[7] # envs[2].keys[7]
  /\ envs[1].keys[1] # envs[1].keys[7]

====
